---- MODULE Spec2Model ----
(***************************************************************************)
(* Model of bot.py: the /start activation command (handle_start), the      *)
(* /notify webhook (handle_notify), the Google Drive document accessors    *)
(* (read_db / write_db under db_lock) and the retrying sender (retry_send, *)
(* safe_send_message, safe_send_media_group).                              *)
(*                                                                         *)
(* Scheduling.  All handlers are coroutines of one asyncio event loop.  A  *)
(* coroutine keeps the loop until it awaits something that is not ready:   *)
(* a Telegram call (await func(...) in retry_send), asyncio.sleep, the     *)
(* request body (await request.json()), or db_lock when it is taken.  The  *)
(* Drive calls inside read_db / write_db are plain synchronous calls (no   *)
(* await), so the coroutine does not leave the loop inside the lock, and   *)
(* asyncio.Lock.acquire returns without suspending when the lock is free.  *)
(* `cur` is the coroutine that holds the loop (0: the loop is idle); every *)
(* step of task t needs cur \in {0, t}.                                    *)
(*                                                                         *)
(* Units: delays are in tenths of a second (0.8 s = 8, 10 s = 100).        *)
(***************************************************************************)
EXTENDS Integers, Sequences, FiniteSets, TLC

\* ---------------------------------------------------------------- bounds
MaxPhotos == 2     \* longest photos list of a request that runs alone
ConcPhotos == 1    \* longest photos list when two requests may overlap
MaxBatch == 11     \* longest photos list of a run of long batches
MaxDecoded == 2    \* most items of a long batch that decode

\* ------------------------------------------------------ program constants
MaxAttempts == 5   \* _max_attempts default
BaseSleep == 8     \* _base_sleep default, 0.8 s
SleepCap == 100    \* min(sleep_s, 10)
PhotoLimit == 10   \* event_data.get("data", [])[:10]

Tasks == {1, 2}            \* handler invocations that may overlap
Chats == {1, 2}            \* Telegram chat ids (non-zero integers)
NoChat == 0                \* JSON null / missing chat_id
Codes == {"X", "Y"}        \* activation codes
NoCode == "-"              \* /start without an argument

\* The remote document as the account system created it: every binding is
\* pending, carries its own activation code and no chat yet.
InitUsers ==
  << [activationId |-> "X", status |-> "pending", chatId |-> NoChat],
     [activationId |-> "Y", status |-> "pending", chatId |-> NoChat] >>

NoDoc == [ok |-> FALSE, users |-> << >>]   \* read_db returned None
Doc(us) == [ok |-> TRUE, users |-> us]

Min(a, b) == IF a <= b THEN a ELSE b

RECURSIVE Pow2(_)
Pow2(n) == IF n = 0 THEN 1 ELSE 2 * Pow2(n - 1)

\* ------------------------------------------------------- pure functions

\* A lookup that matches nobody.
FindNobody(users, c) == 0

\* Index of the first user whose binding has this chatId, 0 for None.
find_user_by_chat_id(users, c) ==
  LET hits == {i \in 1..Len(users) : users[i].chatId = c}
  IN IF hits = {} THEN 0 ELSE CHOOSE i \in hits : \A j \in hits : i <= j

\* The activation lookup without its status test.
FindPendingIgnoringStatus(users, a) ==
  LET hits == {i \in 1..Len(users) : users[i].activationId = a}
  IN IF hits = {} THEN 0 ELSE CHOOSE i \in hits : \A j \in hits : i <= j

\* handle_start's loop: the first user whose binding is pending with this
\* activation code, 0 for None.
FindPending(users, a) ==
  LET hits == {i \in 1..Len(users) :
                 users[i].activationId = a /\ users[i].status = "pending"}
  IN IF hits = {} THEN 0 ELSE CHOOSE i \in hits : \A j \in hits : i <= j

\* binding["status"] = "active"; binding["chatId"] = chat_id
Activate(users, i, c) ==
  [users EXCEPT ![i] = [@ EXCEPT !.status = "active", !.chatId = c]]

\* user_to_deactivate["telegramBinding"]["status"] = 'bot_blocked'
MarkBlocked(users, i) ==
  [users EXCEPT ![i] = [@ EXCEPT !.status = "bot_blocked"]]

\* The delay without its cap.
DelayUncapped(attempt) == BaseSleep * Pow2(attempt - 1)

\* retry_send's delay after failed attempt number `attempt`.
Delay(attempt) == Min(BaseSleep * Pow2(attempt - 1), SleepCap)

\* ---------------------------------------------------------------- state
VARIABLES
  store,        \* the remote Drive document: its "users" list
  db_lock,      \* asyncio.Lock: the task inside `async with db_lock`, or 0
  waiters,      \* tasks suspended in db_lock.acquire(), in arrival order
  cur,          \* the coroutine that holds the event loop, or 0
  live,         \* the tasks that receive requests in this run: {1} or both
                \* in a run of Spec, {2} in a run of long batches (SpecBatch)
  task,         \* per invocation: its position and its local variables
  obs,          \* per invocation: what it has done so far (history)
  activations,  \* per activation code: persisted pending -> active writes
  persisted     \* per user: the furthest status ever persisted (rank)

vars == << store, db_lock, waiters, cur, live, task, obs, activations,
           persisted >>

\* event_data["type"]: the three types handle_notify has a branch for, two
\* more that senders use, and "other" for anything else.
EventTypes == {"photos", "video", "location", "form", "device_info", "other"}

\* The types with a branch in handle_notify's if / elif chain.
Handled == {"photos", "location", "form"}

\* pc: "idle", "read_call" / "write_call" (at `async with db_lock`),
\* "read_body" / "write_body" (inside the lock, the Drive call), "hn_json"
\* (awaiting request.json()), "send" (awaiting func in retry_send), "sleep"
\* (awaiting asyncio.sleep in retry_send), "done".
IdleTask ==
  [pc |-> "idle", kind |-> "-", chat_id |-> NoChat, activation_id |-> NoCode,
   db_data |-> NoDoc, user_to_activate |-> 0, msg |-> "-",
   resp |-> 0, event_type |-> "-", data |-> << >>, media |-> << >>, idx |-> 0,
   attempt |-> 0, slept |-> << >>, exc |-> "-"]

IdleObs ==
  [fresh |-> FALSE, withCode |-> FALSE, didRead |-> FALSE,
   readFailed |-> FALSE, bound |-> FALSE, nwrites |-> 0,
   writeFailed |-> FALSE, sent |-> FALSE, sentBeforeRead |-> FALSE,
   permFail |-> FALSE, permActive |-> FALSE, sentAfterPerm |-> FALSE,
   validated |-> FALSE, badLocation |-> FALSE, mustSend |-> FALSE]

Rank(s) == CASE s = "pending" -> 0 [] s = "active" -> 1 [] s = "bot_blocked" -> 2

\* Some user of this document is bound active to chat c.
BoundActive(users, c) ==
  \E i \in 1..Len(users) : users[i].chatId = c /\ users[i].status = "active"

Init ==
  /\ store = InitUsers
  /\ db_lock = 0
  /\ waiters = << >>
  /\ cur = 0
  /\ live \in {{1}, Tasks}
  /\ task = [t \in Tasks |-> IdleTask]
  /\ obs = [t \in Tasks |-> IdleObs]
  /\ activations = [a \in Codes |-> 0]
  /\ persisted = [i \in 1..Len(InitUsers) |-> 0]

\* ----------------------------------------------------------- scheduling

\* Task t may take a step: it holds the loop, or the loop is idle.
CanRun(t) == cur \in {0, t}

\* The Drive calls run in an executor and are awaited.
DriveIsAwaited == FALSE

\* The Drive client calls inside read_db / write_db are synchronous: the
\* coroutine keeps the loop from acquiring the lock to releasing it.
DriveIsBlocking == TRUE

\* A handler that has returned.  Its locals are gone; the HTTP status and
\* the exception its last retry_send or its try block ended with stay
\* visible.
Finished(r, status) ==
  [IdleTask EXCEPT !.pc = "done", !.kind = r.kind, !.resp = status,
                   !.exc = r.exc]

\* The history that stays with a handler that has returned.
FinishedObs(o, r) ==
  IF r.kind = "start" THEN IdleObs
  ELSE [IdleObs EXCEPT !.validated = o.validated,
                       !.badLocation = o.badLocation,
                       !.permFail = o.permFail,
                       !.permActive = o.permActive,
                       !.sentAfterPerm = o.sentAfterPerm,
                       !.readFailed = o.readFailed,
                       !.writeFailed = o.writeFailed,
                       !.nwrites = o.nwrites,
                       !.sent = o.sent,
                       !.mustSend = o.mustSend]

\* The task's locals when it enters retry_send for message m: attempt 1
\* calls func, and the await suspends the task.
BeginSend(r, m) ==
  [r EXCEPT !.pc = "send", !.msg = m, !.attempt = 1, !.slept = << >>,
            !.exc = "-"]

\* handle_start reads none of its locals again once it sends its reply:
\* they are dropped from the state.
BeginReply(r, m) ==
  BeginSend([r EXCEPT !.chat_id = NoChat, !.activation_id = NoCode,
                      !.db_data = NoDoc, !.user_to_activate = 0], m)

\* What an invocation has done, after a step that leaves it in state r:
\* a step that ends at "send" has just called func.
Called(o, r) ==
  IF r.pc = "send"
  THEN [o EXCEPT !.sent = TRUE,
                 !.sentBeforeRead = @ \/ ~o.didRead,
                 !.sentAfterPerm = @ \/ o.permFail]
  ELSE IF r.pc = "done" THEN FinishedObs(o, r)
  ELSE o

\* The loop is free again when the step ends at an await that suspends or
\* at the handler's return.
Yields(r) == r.pc \in {"send", "sleep", "hn_json", "done"}

\* ---------------------------------------------------------- handle_start

\* From the return of read_db to the first send or to the call of write_db.
HsDecide(r) ==
  LET users == r.db_data.users
      active_user == find_user_by_chat_id(users, r.chat_id)
      found == FindPending(users, r.activation_id)
  IN IF ~r.db_data.ok THEN BeginReply(r, "read_failed")
     ELSE IF active_user # 0 /\ r.activation_id = NoCode
          THEN BeginReply(r, "welcome_active")
     ELSE IF r.activation_id = NoCode THEN BeginReply(r, "need_link")
     ELSE IF active_user # 0 THEN BeginReply(r, "already_bound")
     ELSE IF found # 0
          THEN [r EXCEPT !.user_to_activate = found,
                         !.db_data = Doc(Activate(users, found, r.chat_id)),
                         !.pc = "write_call"]
     ELSE BeginReply(r, "invalid_code")

\* The reply after write_db that does not look at its result.
HsAfterWriteOptimistic(r, wrote) == BeginReply(r, "success")

\* if await write_db(db_data): the success message, else the save failure.
HsAfterWrite(r, wrote) ==
  BeginReply(r, IF wrote THEN "success" ELSE "save_failed")

\* --------------------------------------------------------- handle_notify

\* The photos loop without the [:10] slice.
RECURSIVE DecodeUnlimited(_, _)
DecodeUnlimited(data, k) ==
  IF k > Len(data) THEN << >>
  ELSE IF data[k]
       THEN << [idx |-> k - 1, caption |-> (k - 1 = 0)] >>
            \o DecodeUnlimited(data, k + 1)
       ELSE DecodeUnlimited(data, k + 1)

\* The photos loop: of the first PhotoLimit items of data, each one that
\* decodes becomes a media item; the caption goes with enumerate index 0.
\* `data` is a sequence of booleans: item k decodes or not.
RECURSIVE DecodePhotos(_, _)
DecodePhotos(data, k) ==
  IF k > Min(Len(data), PhotoLimit) THEN << >>
  ELSE IF data[k]
       THEN << [idx |-> k - 1, caption |-> (k - 1 = 0)] >>
            \o DecodePhotos(data, k + 1)
       ELSE DecodePhotos(data, k + 1)

\* The photos lists a request may carry: every list up to PhotoBound, and
\* in a run of long batches every list of PhotoLimit to MaxBatch items of
\* which at most MaxDecoded decode.
PhotoBound ==
  IF live = Tasks THEN ConcPhotos ELSE IF live = {1} THEN MaxPhotos ELSE MaxBatch

PhotoLists ==
  IF live = {2}
  THEN UNION {{[k \in 1..n |-> \E j \in 1..MaxDecoded : pick[j] = k] :
                 pick \in [1..MaxDecoded -> 0..n]} :
              n \in PhotoLimit..MaxBatch}
  ELSE UNION {[1..n -> BOOLEAN] : n \in 0..PhotoBound}

\* if db_data: the user of chat_id, unless already bot_blocked, is set to
\* bot_blocked and the document is written; then 200.  The attempt count of
\* the failed send is not read again and is dropped from the state.
NotifyMark(r) ==
  LET users == r.db_data.users
      user_to_deactivate == find_user_by_chat_id(users, r.chat_id)
  IN IF /\ r.db_data.ok
        /\ users # << >>
        /\ user_to_deactivate # 0
        /\ users[user_to_deactivate].status # "bot_blocked"
     THEN [r EXCEPT !.db_data = Doc(MarkBlocked(users, user_to_deactivate)),
                    !.pc = "write_call", !.attempt = 0, !.slept = << >>]
     ELSE Finished(r, 200)

\* The except block that marks the binding after any failed delivery.
NotifyExceptAnyError(r) ==
  IF r.exc # "-" THEN [r EXCEPT !.pc = "read_call"] ELSE Finished(r, 200)

\* except Exception as e: if is_blocked_error(e), read the document; in
\* every case 200 in the end.
NotifyExcept(r) ==
  IF r.exc = "blocked"
  THEN [r EXCEPT !.pc = "read_call"]
  ELSE Finished(r, 200)

\* The branch on event_type inside the try block, up to the first send.
\* wellformed = FALSE: the payload has the wrong shape for its type and an
\* exception (not a Telegram error) is raised inside the try block.
NotifyRender(r, ty, wellformed, data, coords) ==
  LET e == [r EXCEPT !.event_type = ty]
      media == DecodePhotos(data, 1)
  IN IF ty \notin Handled THEN Finished(e, 200)
     ELSE IF ~wellformed THEN NotifyExcept([e EXCEPT !.exc = "error"])
     ELSE IF ty = "photos"
          THEN IF media # << >>
               THEN BeginSend([e EXCEPT !.data = data, !.media = media,
                                        !.idx = 1], "photo")
               ELSE Finished(e, 200)
     ELSE IF ty = "location" /\ ~coords THEN Finished(e, 400)
     ELSE BeginSend(e, ty)

\* --------------------------------------------- what follows a retry_send

\* The caller that sends the same message again whatever retry_send did.
AfterSendAgain(r) == BeginSend(r, r.msg)

\* retry_send has returned (exc = "-") or raised (exc = "blocked",
\* "exhausted").  handle_start returns either way (its outer except only
\* logs).  safe_send_media_group appends the result or logs the exception
\* and takes the next item.  handle_notify's text branches return 200 or
\* enter the except block.
AfterSend(r) ==
  IF r.kind = "start" THEN Finished(r, 0)
  ELSE IF r.event_type = "photos"
       THEN IF r.idx < Len(r.media)
            THEN BeginSend([r EXCEPT !.idx = @ + 1], "photo")
            ELSE Finished(r, 200)
  ELSE IF r.exc = "-" THEN Finished(r, 200)
  ELSE NotifyExcept(r)

\* ------------------------------------------------- read_db and write_db

\* `async with db_lock:` entered without the lock and with the Drive call
\* awaited.
DbSectionUnlocked(t, body) ==
  /\ CanRun(t)
  /\ task' = [task EXCEPT ![t].pc = body]
  /\ cur' = 0
  /\ UNCHANGED << db_lock, waiters >>

\* `async with db_lock:` acquire() takes a free lock at once when nobody
\* waits for it (or the caller is the woken first waiter); otherwise the
\* caller queues and suspends.
DbSection(t, body) ==
  /\ CanRun(t)
  /\ IF db_lock = 0 /\ (waiters = << >> \/ Head(waiters) = t)
     THEN /\ db_lock' = t
          /\ waiters' = IF waiters = << >> THEN waiters ELSE Tail(waiters)
          /\ task' = [task EXCEPT ![t].pc = body]
          /\ cur' = IF DriveIsBlocking THEN t ELSE 0
     ELSE /\ \A k \in 1..Len(waiters) : waiters[k] # t
          /\ waiters' = Append(waiters, t)
          /\ cur' = 0
          /\ UNCHANGED << db_lock, task >>

\* Leaving the block with the lock still held by the caller.
LockKept(t) == t

\* The end of `async with db_lock:`: __aexit__ releases the lock on every
\* way out of the block, the return inside try as the one inside except.
LockAfterExit(t) == 0

ReadDbEnter(t) ==
  /\ task[t].pc = "read_call"
  /\ DbSection(t, "read_body")
  /\ UNCHANGED << store, live, obs, activations, persisted >>

\* The download ends: the document, or None when the Drive call raised.
\* The lock is released and the caller goes on to its next await.
ReadDbBody(t) ==
  /\ task[t].pc = "read_body"
  /\ CanRun(t)
  /\ \E ok \in BOOLEAN :
       LET r == [task[t] EXCEPT !.db_data = IF ok THEN Doc(store) ELSE NoDoc]
           next == IF r.kind = "start" THEN HsDecide(r) ELSE NotifyMark(r)
           o == [obs[t] EXCEPT
                   !.fresh = ok,
                   !.didRead = TRUE,
                   !.readFailed = ~ok,
                   !.bound = BoundActive(store, r.chat_id)]
       IN /\ task' = [task EXCEPT ![t] = next]
          /\ obs' = [obs EXCEPT ![t] = Called(o, next)]
          /\ cur' = IF Yields(next) THEN 0 ELSE t
  /\ db_lock' = LockAfterExit(t)
  /\ UNCHANGED << store, waiters, live, activations, persisted >>

WriteDbEnter(t) ==
  /\ task[t].pc = "write_call"
  /\ DbSection(t, "write_body")
  /\ UNCHANGED << store, live, obs, activations, persisted >>

\* The upload ends: it has replaced the whole document, or it failed and
\* left it as it was.  The lock is released and the caller goes on.
WriteDbBody(t) ==
  /\ task[t].pc = "write_body"
  /\ CanRun(t)
  /\ \E ok \in BOOLEAN :
       LET r == task[t]
           new == r.db_data.users
           next == IF r.kind = "start" THEN HsAfterWrite(r, ok)
                                       ELSE Finished(r, 200)
           o == [obs[t] EXCEPT !.nwrites = IF ok THEN @ + 1 ELSE @,
                               !.writeFailed = @ \/ ~ok]
       IN /\ store' = IF ok THEN new ELSE store
          /\ task' = [task EXCEPT ![t] = next]
          /\ obs' = [u \in Tasks |->
               IF u = t THEN Called(o, next)
               ELSE [obs[u] EXCEPT !.fresh = @ /\ ~ok]]
          /\ activations' =
               IF ok /\ r.kind = "start"
               THEN [activations EXCEPT ![r.activation_id] = Min(@ + 1, 2)]
               ELSE activations
          /\ persisted' =
               IF ok
               THEN [i \in DOMAIN persisted |->
                       IF Rank(new[i].status) > persisted[i]
                       THEN Rank(new[i].status) ELSE persisted[i]]
               ELSE persisted
          /\ cur' = IF Yields(next) THEN 0 ELSE t
  /\ db_lock' = LockAfterExit(t)
  /\ UNCHANGED << waiters, live >>

\* ------------------------------------------------------------ retry_send

Outcomes == {"ok", "transient", "blocked"}

\* The loop body that backs off after a permanent error as after any other.
RetryBlockedToo(r, outcome) ==
  IF outcome = "ok" THEN AfterSend(r)
  ELSE [r EXCEPT !.pc = "sleep", !.slept = Append(@, Delay(r.attempt))]

\* The loop body that raises straight after the last failed attempt.
RetryNoFinalSleep(r, outcome) ==
  CASE outcome = "ok" -> AfterSend(r)
    [] outcome = "blocked" -> AfterSend([r EXCEPT !.exc = "blocked"])
    [] outcome = "transient" ->
         IF r.attempt < MaxAttempts
         THEN [r EXCEPT !.pc = "sleep", !.slept = Append(@, Delay(r.attempt))]
         ELSE AfterSend([r EXCEPT !.exc = "exhausted"])

\* The body of retry_send's for loop once func has come back: return its
\* result; re-raise an error that is_blocked_error recognises; after any
\* other error wait sleep_s, whatever the attempt number.
RetryStep(r, outcome) ==
  CASE outcome = "ok" -> AfterSend(r)
    [] outcome = "blocked" -> AfterSend([r EXCEPT !.exc = "blocked"])
    [] outcome = "transient" ->
         [r EXCEPT !.pc = "sleep", !.slept = Append(@, Delay(r.attempt))]

\* One `await func(*args, **kwargs)` comes back: a result (return), an
\* error that is_blocked_error recognises (re-raised at once), or any other
\* error (logged, then asyncio.sleep(min(sleep_s, 10))).
SendAttempt(t) ==
  /\ task[t].pc = "send"
  /\ CanRun(t)
  /\ \E outcome \in Outcomes :
       LET r == task[t]
           next == RetryStep(r, outcome)
           o == [obs[t] EXCEPT
                   !.permFail = @ \/ (outcome = "blocked"),
                   !.permActive = @ \/ (outcome = "blocked"
                                        /\ BoundActive(store, r.chat_id))]
       IN /\ task' = [task EXCEPT ![t] = next]
          /\ obs' = [obs EXCEPT ![t] = Called(o, next)]
          /\ cur' = IF Yields(next) THEN 0 ELSE t
  /\ UNCHANGED << store, db_lock, waiters, live, activations, persisted >>

\* The sleep ends: the next iteration of the for loop calls func again, or
\* the loop is over and RuntimeError is raised.
Sleep(t) ==
  /\ task[t].pc = "sleep"
  /\ CanRun(t)
  /\ LET r == task[t]
         next == IF r.attempt < MaxAttempts
                 THEN [r EXCEPT !.pc = "send", !.attempt = @ + 1]
                 ELSE AfterSend([r EXCEPT !.exc = "exhausted"])
     IN /\ task' = [task EXCEPT ![t] = next]
        /\ obs' = [obs EXCEPT ![t] = Called(@, next)]
        /\ cur' = IF Yields(next) THEN 0 ELSE t
  /\ UNCHANGED << store, db_lock, waiters, live, activations, persisted >>

\* ------------------------------------------------------------- requests

\* aiotg dispatches "/start [code]" from chat c to a new handle_start
\* task, which runs up to `async with db_lock` in read_db.
StartCmd(t) ==
  /\ t \in live
  /\ task[t].pc \in {"idle", "done"}
  /\ cur = 0
  /\ \E c \in Chats, a \in Codes \cup {NoCode} :
       /\ task' = [task EXCEPT ![t] = [IdleTask EXCEPT
                     !.pc = "read_call", !.kind = "start",
                     !.chat_id = c, !.activation_id = a]]
       /\ obs' = [obs EXCEPT ![t] = [IdleObs EXCEPT !.withCode = (a # NoCode)]]
  /\ cur' = t
  /\ UNCHANGED << store, db_lock, waiters, live, activations, persisted >>

\* The header check that lets the request through and only notes the 401.
NotifyAuthDeferred(r, authorized) ==
  [r EXCEPT !.pc = "hn_json", !.resp = IF authorized THEN 0 ELSE 401]

\* if not auth_header or auth_header != f"Bearer {API_SECRET}": return 401;
\* otherwise the handler goes on to await request.json().
NotifyAuth(r, authorized) ==
  IF authorized THEN [r EXCEPT !.pc = "hn_json"] ELSE Finished(r, 401)

\* aiohttp dispatches POST /notify to a new handle_notify task: 401 unless
\* the Authorization header is the configured bearer secret, then
\* await request.json().
NotifyReq(t) ==
  /\ t \in live
  /\ task[t].pc \in {"idle", "done"}
  /\ cur = 0
  /\ \E authorized \in BOOLEAN :
       task' = [task EXCEPT ![t] =
                  NotifyAuth([IdleTask EXCEPT !.kind = "notify"], authorized)]
  /\ obs' = [obs EXCEPT ![t] = IdleObs]
  /\ cur' = 0
  /\ UNCHANGED << store, db_lock, waiters, live, activations, persisted >>

EventShapes == {"missing", "dict", "other"}

\* request.json() comes back: the body does not parse (400); chat_id or
\* event_data is missing or falsy (400); event_data is not an object, so
\* event_data.get("type"), which is outside the try block, raises and
\* aiohttp answers 500; else the event is rendered and the first send made.
NotifyJson(t) ==
  /\ task[t].pc = "hn_json"
  /\ CanRun(t)
  /\ \E parses \in BOOLEAN, c \in Chats \cup {NoChat}, shape \in EventShapes,
        ty \in EventTypes, wellformed \in BOOLEAN, coords \in BOOLEAN :
       LET r == task[t]
           valid == parses /\ c # NoChat /\ shape # "missing"
           rendered == valid /\ shape = "dict"
       IN \* every input that the code does not read is left at one value
          /\ ~parses => (c = NoChat /\ shape = "missing")
          /\ ~rendered => (ty = "other" /\ wellformed /\ coords)
          /\ ty # "location" => coords
          /\ ty \notin Handled => wellformed
          /\ ~wellformed => coords
          /\ \E data \in IF rendered /\ ty = "photos" /\ wellformed
                          THEN PhotoLists ELSE {<< >>} :
               LET next == IF ~valid THEN Finished(r, 400)
                           ELSE IF shape = "other" THEN Finished(r, 500)
                           ELSE NotifyRender([r EXCEPT !.chat_id = c], ty,
                                             wellformed, data, coords)
                   o == [obs[t] EXCEPT
                           !.validated = valid,
                           !.badLocation = rendered /\ ty = "location"
                                           /\ wellformed /\ ~coords,
                           !.mustSend = /\ rendered /\ wellformed
                                        /\ ty # "other"
                                        /\ ty = "photos" =>
                                             /\ data # << >>
                                             /\ \A k \in 1..Len(data) : data[k]
                                        /\ ty = "location" => coords]
               IN /\ task' = [task EXCEPT ![t] = next]
                  /\ obs' = [obs EXCEPT ![t] = Called(o, next)]
                  /\ cur' = IF Yields(next) THEN 0 ELSE t
  /\ UNCHANGED << store, db_lock, waiters, live, activations, persisted >>

\* ------------------------------------------------------------------ spec

Next ==
  \E t \in Tasks :
    \/ StartCmd(t)
    \/ NotifyReq(t)
    \/ NotifyJson(t)
    \/ ReadDbEnter(t)
    \/ ReadDbBody(t)
    \/ WriteDbEnter(t)
    \/ WriteDbBody(t)
    \/ SendAttempt(t)
    \/ Sleep(t)

Spec == Init /\ [][Next]_vars

\* A run in which one handler receives requests and photos batches are long
\* enough for the [:10] slice to cut them.
InitBatch ==
  /\ store = InitUsers
  /\ db_lock = 0
  /\ waiters = << >>
  /\ cur = 0
  /\ live = {2}
  /\ task = [t \in Tasks |-> IdleTask]
  /\ obs = [t \in Tasks |-> IdleObs]
  /\ activations = [a \in Codes |-> 0]
  /\ persisted = [i \in 1..Len(InitUsers) |-> 0]

SpecBatch == InitBatch /\ [][Next]_vars

\* A run in which every task serves one request.
NextOnce ==
  \E t \in Tasks :
    \/ task[t].pc = "idle" /\ StartCmd(t)
    \/ task[t].pc = "idle" /\ NotifyReq(t)
    \/ NotifyJson(t)
    \/ ReadDbEnter(t)
    \/ ReadDbBody(t)
    \/ WriteDbEnter(t)
    \/ WriteDbBody(t)
    \/ SendAttempt(t)
    \/ Sleep(t)

InitAny ==
  /\ store = InitUsers
  /\ db_lock = 0
  /\ waiters = << >>
  /\ cur = 0
  /\ live \in {{1}, {2}, Tasks}
  /\ task = [t \in Tasks |-> IdleTask]
  /\ obs = [t \in Tasks |-> IdleObs]
  /\ activations = [a \in Codes |-> 0]
  /\ persisted = [i \in 1..Len(InitUsers) |-> 0]

\* A step of a handler that is running: every action but the arrival of a
\* new request.
Step(t) ==
  \/ NotifyJson(t)
  \/ ReadDbEnter(t)
  \/ ReadDbBody(t)
  \/ WriteDbEnter(t)
  \/ WriteDbBody(t)
  \/ SendAttempt(t)
  \/ Sleep(t)

\* Every remote call comes back and the event loop runs every coroutine
\* that is ready: a handler that can take a step again and again does take
\* it, whatever the other handlers do in between.
Fairness == \A t \in Tasks : SF_vars(Step(t))

FairSpec == InitAny /\ [][NextOnce]_vars /\ Fairness

\* ---------------------------------------------------------------- claims

InRetry(t) == task[t].pc \in {"send", "sleep"}

\* C1: no handler writes a document derived from a read that another
\* handler's write has superseded, and no persisted binding change is lost:
\* a task inside write_db holds a snapshot no other write has followed, and
\* every user's stored status is the furthest one ever persisted for it.
C1_NoLostUpdate ==
  /\ \A t \in Tasks : task[t].pc = "write_body" => obs[t].fresh
  /\ \A i \in 1..Len(store) : Rank(store[i].status) = persisted[i]

\* A blocking write is in progress while the handler that activated a
\* binding is still retrying its success reply.
C1_Witness ==
  \E t, u \in Tasks :
    /\ t # u
    /\ task[t].kind = "notify" /\ task[t].pc = "write_body"
    /\ task[u].kind = "start" /\ InRetry(u) /\ task[u].msg = "success"

\* C2: activation uniqueness: for every activation code at most one
\* handle_start persists an activation, and a handle_start that is about to
\* write an activation has matched a binding that is still pending in the
\* stored document under that code.
C2_ActivationUnique ==
  /\ \A a \in Codes : activations[a] <= 1
  /\ \A t \in Tasks :
       (task[t].kind = "start" /\ task[t].pc \in {"write_call", "write_body"})
       => /\ activations[task[t].activation_id] = 0
          /\ store[task[t].user_to_activate].status = "pending"
          /\ store[task[t].user_to_activate].activationId = task[t].activation_id

\* Code X has activated its user, code Y is still pending, and a later
\* /start with a code is answered "invalid or already used": the code was X.
C2_Witness ==
  /\ activations["X"] = 1
  /\ store[2].status = "pending"
  /\ \E t \in Tasks : task[t].kind = "start" /\ InRetry(t)
                      /\ task[t].msg = "invalid_code"

\* C3: in the stored document no two users are active with the same chatId.
C3_OneActivePerChat ==
  \A i, j \in 1..Len(store) :
    (i # j /\ store[i].status = "active" /\ store[j].status = "active")
    => store[i].chatId # store[j].chatId

\* A chat bound active to the first user sent /start with a code while the
\* second user was still pending, and is told it is already bound.
C3_Witness ==
  /\ store[1].status = "active"
  /\ store[2].status = "pending"
  /\ \E t \in Tasks : task[t].kind = "start" /\ InRetry(t)
                      /\ task[t].msg = "already_bound"

\* C4: every change of a stored status is pending -> active or
\* active -> bot_blocked.
C4_StatusTransitions ==
  [][\A i \in 1..Len(store) :
       store'[i].status # store[i].status
       => << store[i].status, store'[i].status >>
            \in {<< "pending", "active" >>, << "active", "bot_blocked" >>}]_vars

\* A binding is stored as bot_blocked and a /start with a code has been
\* turned down since.
C4_Witness ==
  /\ \E i \in 1..Len(store) : store[i].status = "bot_blocked"
  /\ \E t \in Tasks : task[t].kind = "start" /\ InRetry(t)
                      /\ task[t].msg \in {"invalid_code", "already_bound"}

\* C5: when a send of a /notify request fails permanently while chat_id is
\* bound active, no further send is attempted in that request and, storage
\* being available, the request ends with exactly one write.
C5_PermanentFailureFeedback ==
  \A t \in Tasks :
    (task[t].kind = "notify" /\ obs[t].permActive)
    => /\ ~obs[t].sentAfterPerm
       /\ (task[t].pc = "done" /\ ~obs[t].readFailed /\ ~obs[t].writeFailed)
          => obs[t].nwrites = 1

\* C6: a /notify request that passed the checks of the header, the body,
\* chat_id and event_data is answered 200, or 400 for a location event
\* without coordinates.
C6_AcceptedIsAnswered200 ==
  \A t \in Tasks :
    (task[t].kind = "notify" /\ task[t].pc = "done" /\ obs[t].validated)
    => \/ task[t].resp = 200
       \/ task[t].resp = 400 /\ obs[t].badLocation

\* C7: in retry_send at most MaxAttempts calls are made; the delay after
\* failed attempt i is min(0.8 * 2^(i-1), 10) seconds, the delays never
\* decrease and never exceed 10 s; after the delay that follows the fifth
\* failure no further call of that send is made and the failure the handler
\* ends with is "exhausted"; and "exhausted" is raised in no other way.
C7_BackoffBound ==
  [][\A t \in Tasks :
       /\ InRetry(t) =>
            /\ task[t].attempt \in 1..MaxAttempts
            /\ Len(task[t].slept)
                 = IF task[t].pc = "sleep" THEN task[t].attempt
                                           ELSE task[t].attempt - 1
            /\ \A i \in 1..Len(task[t].slept) :
                 /\ task[t].slept[i] = Min(BaseSleep * Pow2(i - 1), SleepCap)
                 /\ task[t].slept[i] <= SleepCap
                 /\ i > 1 => task[t].slept[i - 1] <= task[t].slept[i]
       /\ (task[t].pc = "sleep" /\ task'[t] # task[t]) =>
            IF task[t].attempt < MaxAttempts
            THEN task'[t] = [task[t] EXCEPT !.pc = "send", !.attempt = @ + 1]
            ELSE /\ task'[t].pc # "sleep"
                 /\ task'[t].pc = "send" => task'[t].attempt = 1
                 /\ task'[t].pc = "done" => task'[t].exc = "exhausted"
       /\ (task'[t].exc = "exhausted" /\ task[t].exc # "exhausted") =>
            /\ task[t].pc = "sleep"
            /\ task[t].attempt = MaxAttempts
            /\ Len(task[t].slept) = MaxAttempts]_vars

\* All five attempts of a send have failed transiently and the fifth delay
\* is being waited.
C7_Witness ==
  \E t \in Tasks : task[t].pc = "sleep" /\ task[t].attempt = MaxAttempts

\* C8: at most one read_db or write_db body is in progress, its task holds
\* db_lock, and the stored document changes only to the whole argument of
\* the write_db that holds the lock.
C8_MutualExclusion ==
  [][/\ \A t, u \in Tasks :
          (task[t].pc \in {"read_body", "write_body"}
           /\ task[u].pc \in {"read_body", "write_body"}) => t = u
     /\ \A t \in Tasks :
          task[t].pc \in {"read_body", "write_body"} <=> db_lock = t
     /\ store' # store =>
          \E t \in Tasks : /\ task[t].pc = "write_body"
                           /\ db_lock = t
                           /\ store' = task[t].db_data.users]_vars

\* A write_db body is in progress while another handler is suspended in a
\* retry of its own.
C8_Witness ==
  \E t, u \in Tasks :
    t # u /\ task[t].pc = "write_body" /\ db_lock = t /\ InRetry(u)

\* C9 as amended: a /start with a code from a chat that is bound active
\* never reaches write_db; it replies "already bound" when read_db returned
\* the document and "could not read" when read_db failed.
C9_ReactivationIsNoOp ==
  \A t \in Tasks :
    (task[t].kind = "start" /\ obs[t].withCode /\ obs[t].bound)
    => /\ task[t].pc \notin {"write_call", "write_body"}
       /\ obs[t].nwrites = 0
       /\ InRetry(t) =>
            task[t].msg = IF obs[t].readFailed THEN "read_failed"
                                               ELSE "already_bound"

\* C9 as stated: the reply is always the already-bound message.
C9_AlwaysAlreadyBound ==
  \A t \in Tasks :
    (task[t].kind = "start" /\ obs[t].withCode /\ obs[t].bound)
    => /\ task[t].pc \notin {"write_call", "write_body"}
       /\ obs[t].nwrites = 0
       /\ InRetry(t) => task[t].msg = "already_bound"

\* A chat bound active re-sent /start with a code and the already-bound
\* reply is being retried for the last time.
C9_Witness ==
  \E t \in Tasks :
    /\ task[t].kind = "start" /\ obs[t].withCode /\ obs[t].bound
    /\ task[t].pc = "send" /\ task[t].msg = "already_bound"
    /\ task[t].attempt = MaxAttempts

\* C10: in handle_notify no send is attempted before read_db has been
\* called.
C10_ReadBeforeSend ==
  \A t \in Tasks :
    (task[t].kind = "notify" /\ obs[t].sent) => ~obs[t].sentBeforeRead

\* C11: in a photos batch exactly one sent item carries the caption, and it
\* is the first item that decoded; every later item has none.
C11_CaptionOnFirstDecoded ==
  \A t \in Tasks :
    (task[t].kind = "notify" /\ task[t].event_type = "photos" /\ InRetry(t))
    => /\ task[t].media[1].caption
       /\ \A k \in 2..Len(task[t].media) : ~task[t].media[k].caption

\* C12: a /notify request is answered 401 only by the step that receives
\* it: the handler goes from not running straight to returned, and that
\* step takes no lock, leaves the document alone and starts no send; a
\* handler that answered 401 validated nothing and wrote nothing.
C12_UnauthorizedTouchesNothing ==
  [][\A t \in Tasks :
       /\ (task'[t].resp = 401 /\ task'[t] # task[t]) =>
            /\ task[t].pc \in {"idle", "done"}
            /\ task'[t].pc = "done"
            /\ task'[t].kind = "notify"
            /\ store' = store
            /\ db_lock' = db_lock /\ waiters' = waiters
            /\ obs'[t] = IdleObs
       /\ task[t].resp = 401 =>
            /\ task[t].pc = "done"
            /\ ~obs[t].validated /\ obs[t].nwrites = 0]_vars

\* A request with a wrong bearer secret has been answered 401 while its
\* chat is bound active in the document.
C12_Witness ==
  /\ \E i \in 1..Len(store) : store[i].status = "active"
  /\ \E t \in Tasks : task[t].kind = "notify" /\ task[t].pc = "done"
                      /\ task[t].resp = 401

\* C13: read_db and write_db end by returning a value with the lock
\* released, never by raising; a handle_start whose read_db failed sends
\* the read-failure message, nothing else, and never calls write_db; when
\* the write_db of an activation fails the stored binding is still pending
\* and the reply is the save-failure message, and the success message is
\* sent only after a write that went through.
C13_StorageFailuresAreValues ==
  [][\A t \in Tasks :
       /\ (task[t].pc \in {"read_body", "write_body"} /\ task'[t] # task[t]) =>
            /\ db_lock = t /\ db_lock' = 0
            /\ task'[t].exc = task[t].exc
       /\ (task[t].kind = "start" /\ obs[t].readFailed) =>
            /\ task[t].pc \notin {"write_call", "write_body"}
            /\ obs[t].nwrites = 0
            /\ InRetry(t) => task[t].msg = "read_failed"
       /\ (task[t].kind = "start" /\ InRetry(t) /\ task'[t] # task[t]) =>
            \/ InRetry(t)' /\ task'[t].msg = task[t].msg
            \/ task'[t].pc = "done"
       /\ (task[t].kind = "start" /\ task[t].pc = "write_body"
           /\ task'[t] # task[t]) =>
            IF store' = store
            THEN /\ task'[t].msg = "save_failed"
                 /\ store'[task[t].user_to_activate].status = "pending"
                 /\ activations' = activations
            ELSE /\ task'[t].msg = "success"
                 /\ store' = task[t].db_data.users
       /\ (task[t].kind = "start" /\ InRetry(t)) =>
            /\ task[t].msg = "success" =>
                 ~obs[t].writeFailed /\ obs[t].nwrites = 1
            /\ task[t].msg = "save_failed" =>
                 obs[t].writeFailed /\ obs[t].nwrites = 0]_vars

\* The write_db of an activation failed, the binding is still pending and
\* the save-failure message is being retried.
C13_Witness ==
  /\ \A i \in 1..Len(store) : store[i].status = "pending"
  /\ \E t \in Tasks : /\ task[t].kind = "start" /\ task[t].pc = "sleep"
                      /\ task[t].msg = "save_failed" /\ obs[t].writeFailed

\* C14: a valid event of a type other than "other" (photos, video,
\* location, form, device_info) with well-formed, non-empty data has at
\* least one send attempted for it.
C14_SpecifiedTypesAreSent ==
  \A t \in Tasks :
    (task[t].kind = "notify" /\ obs[t].mustSend) => obs[t].sent

\* C15: a permanent error at attempt k ends retry_send in that step: func
\* has been called k times with k - 1 delays before, no delay follows, and
\* the loop makes no further attempt (a send that follows is attempt 1 of
\* another message); a task whose retry_send raised the permanent error is
\* not in that retry loop any more.
C15_PermanentAbortsRetry ==
  [][\A t \in Tasks :
       /\ (\/ obs'[t].permFail /\ ~obs[t].permFail
           \/ task'[t].exc = "blocked" /\ task[t].exc # "blocked") =>
            /\ task[t].pc = "send"
            /\ task[t].attempt \in 1..MaxAttempts
            /\ Len(task[t].slept) = task[t].attempt - 1
            /\ task'[t].pc # "sleep"
            /\ task'[t].pc = "send" =>
                 /\ task'[t].attempt = 1 /\ task'[t].slept = << >>
                 /\ task'[t].idx = task[t].idx + 1
            /\ task'[t].pc # "send" =>
                 /\ task'[t].exc = "blocked"
                 /\ task'[t].pc \in {"read_call", "done"}
                 /\ task'[t].pc = "read_call" =>
                      /\ task'[t].attempt = task[t].attempt
                      /\ task'[t].slept = task[t].slept
       /\ task[t].exc = "blocked" => ~InRetry(t)]_vars

\* The third attempt of a send met the permanent error after two delays
\* and the handler is about to read the document.
C15_Witness ==
  \E t \in Tasks :
    /\ task[t].kind = "notify" /\ task[t].pc = "read_call"
    /\ task[t].exc = "blocked"
    /\ task[t].attempt = 3 /\ Len(task[t].slept) = 2

\* C16: while a task is awaiting a send or sleeping in retry_send it does
\* not hold db_lock and is not queued for it; the lock is free or held by
\* another task that is inside a read_db or write_db body.
C16_NoLockAcrossRetry ==
  \A t \in Tasks :
    InRetry(t) =>
      /\ db_lock # t
      /\ \A k \in 1..Len(waiters) : waiters[k] # t
      /\ db_lock # 0 => task[db_lock].pc \in {"read_body", "write_body"}

\* One handler is waiting out a backoff delay while another is inside the
\* read_db body with the lock.
C16_Witness ==
  \E t, u \in Tasks :
    /\ t # u
    /\ task[t].pc = "sleep"
    /\ db_lock = u /\ task[u].pc = "read_body"

\* The positions of a photos list that are among the first PhotoLimit and
\* decode.
Decodable(d) == {k \in 1..Len(d) : k <= PhotoLimit /\ d[k]}

\* The retry loop of the message task t is sending ends in this step.
RetryEnds(t) ==
  \/ task[t].pc = "send" /\ task'[t].pc # "sleep"
  \/ task[t].pc = "sleep" /\ task[t].attempt = MaxAttempts

\* C17: the media of a photos batch are exactly the items among the first
\* ten that decode, in their original order; they are sent one by one from
\* the first: the next item's first attempt is made in the step in which
\* the retry loop of the current one ends, and the request ends only when
\* the retry loop of the last item has ended.
C17_BatchInOrder ==
  [][\A t \in Tasks :
       /\ (task[t].pc = "hn_json" /\ task'[t].event_type = "photos") =>
            task'[t].pc = "send" /\ task'[t].idx = 1 /\ task'[t].attempt = 1
       /\ (task[t].kind = "notify" /\ task[t].event_type = "photos"
           /\ InRetry(t))
       => LET d == task[t].data
              m == task[t].media
          IN /\ Len(m) = Cardinality(Decodable(d))
             /\ \A j \in 1..Len(m) : m[j].idx + 1 \in Decodable(d)
             /\ \A i, j \in 1..Len(m) : i < j => m[i].idx < m[j].idx
             /\ task[t].idx \in 1..Len(m)
             /\ task'[t] # task[t] =>
                  \/ /\ InRetry(t)' /\ ~RetryEnds(t)
                     /\ task'[t].idx = task[t].idx
                     /\ task'[t].media = m /\ task'[t].data = d
                  \/ /\ InRetry(t)' /\ RetryEnds(t)
                     /\ task[t].idx < Len(m)
                     /\ task'[t].idx = task[t].idx + 1
                     /\ task'[t].attempt = 1 /\ task'[t].pc = "send"
                     /\ task'[t].media = m /\ task'[t].data = d
                  \/ /\ task'[t].pc = "done" /\ RetryEnds(t)
                     /\ task[t].idx = Len(m)]_vars

\* A batch longer than ten items whose first item does not decode: the
\* second of its two media is being sent.
C17_Witness ==
  \E t \in Tasks :
    /\ task[t].kind = "notify" /\ task[t].event_type = "photos"
    /\ Len(task[t].data) > PhotoLimit
    /\ ~task[t].data[1]
    /\ task[t].pc = "send" /\ task[t].idx = 2 /\ Len(task[t].media) = 2

\* C18: handle_notify reads and writes the document only after a send of
\* that request raised a permanent failure; the document it writes differs
\* from the one it read only in the status of the first user matched by
\* chat_id; a request that met no permanent failure has written nothing.
C18_WriteOnlyAfterPermanentFailure ==
  [][\A t \in Tasks :
       task[t].kind = "notify" =>
         /\ task[t].pc \in {"read_call", "read_body", "write_call", "write_body"}
              => obs[t].permFail /\ task[t].exc = "blocked"
         /\ task[t].pc \in {"write_call", "write_body"} =>
              LET new == task[t].db_data.users
                  i == find_user_by_chat_id(store, task[t].chat_id)
              IN /\ i # 0
                 /\ Len(new) = Len(store)
                 /\ \A j \in 1..Len(store) : j # i => new[j] = store[j]
                 /\ new[i] = [store[i] EXCEPT !.status = "bot_blocked"]
                 /\ new[i] # store[i]
         /\ ~obs[t].permFail => obs[t].nwrites = 0
         /\ (store' # store /\ db_lock = t) =>
              /\ obs[t].permFail
              /\ store' = task[t].db_data.users]_vars

\* A form or location send met the permanent error and the handler is about
\* to write the document with the binding marked.
C18_Witness ==
  \E t \in Tasks :
    /\ task[t].kind = "notify" /\ task[t].pc = "write_call"
    /\ obs[t].permFail
    /\ task[t].db_data.users # store

\* C20: a send that exhausts its budget waits five delays, one after each
\* failed attempt, the fifth included: 0.8, 1.6, 3.2, 6.4 and 10 s (12.8
\* capped); the exhausted failure is raised only when the fifth delay ends.
C20_FiveDelays ==
  [][\A t \in Tasks :
       /\ (task[t].pc = "send" /\ task'[t].pc = "sleep") =>
            /\ Len(task'[t].slept) = task[t].attempt
            /\ task'[t].attempt = task[t].attempt
       /\ (task[t].pc = "sleep" /\ task[t].attempt = MaxAttempts) =>
            /\ task[t].slept = << 8, 16, 32, 64, 100 >>
            /\ BaseSleep * Pow2(MaxAttempts - 1) = 128
       /\ (task'[t].exc = "exhausted" /\ task[t].exc # "exhausted") =>
            /\ task[t].pc = "sleep"
            /\ task[t].slept = << 8, 16, 32, 64, 100 >>]_vars

\* The fifth delay, 10 s, is being waited after the fifth failed attempt.
C20_Witness ==
  \E t \in Tasks :
    task[t].pc = "sleep" /\ task[t].slept = << 8, 16, 32, 64, 100 >>

\* C19: when every remote call comes back and the loop runs every ready
\* coroutine, every handler that has started eventually returns; a message
\* is attempted at most five times and a request sends at most ten
\* messages.
C19_HandlersTerminate ==
  /\ [](\A t \in Tasks : /\ task[t].attempt <= MaxAttempts
                         /\ Len(task[t].media) <= PhotoLimit
                         /\ task[t].idx <= PhotoLimit)
  /\ \A t \in Tasks :
       (task[t].pc \notin {"idle", "done"}) ~> (task[t].pc = "done")

\* Two overlapping handlers have both returned, one of them after its send
\* used up all five attempts.
C19_Witness ==
  /\ live = Tasks
  /\ \A t \in Tasks : task[t].pc = "done"
  /\ \E t \in Tasks : task[t].exc = "exhausted"

====
